---- MODULE Spec2Model ----
(***************************************************************************)
(* Model of stmlapp.py: a Streamlit front end that answers questions about *)
(* a shift roster.  A run of the script loads the roster, reads one text   *)
(* input and, unless it is empty or "exit", classifies it (external call), *)
(* extracts a date and dispatches to a query handler.                      *)
(*                                                                         *)
(* Text is a sequence of tokens: a token is one character (a digit, a      *)
(* space, a newline, "/") or one word that the code never looks inside.    *)
(* Python's None and pandas' NaN are one-token marker strings.             *)
(***************************************************************************)
EXTENDS Integers, Sequences, FiniteSets, TLC

VARIABLES csv, roster_df, today, user_question, category, date_query,
          output, raised, calls

vars == <<csv, roster_df, today, user_question, category, date_query,
          output, raised, calls>>

----------------------------------------------------------------------------
(* Bounds *)

\* rows of the roster file in the handler specification
MaxRows == 2

----------------------------------------------------------------------------
(* Python / pandas values *)

None == <<"None">>
NaN == <<"NaN">>
NaT == [day |-> 0, month |-> 0, year |-> 0]
\* the None that pd.to_datetime(None) returns, in the shape of a Timestamp
NoneTs == [day |-> -1, month |-> -1, year |-> -1]

WIFE_NAME == <<"Karunya", " ", "Subramaniyan">>
shift_columns == <<"Day", "Night", "Day on call", "Night on call">>

Range(s) == {s[i] : i \in 1..Len(s)}

----------------------------------------------------------------------------
(* str methods *)

IsSpace(c) == c \in {" ", "\n"}

RECURSIVE LStrip(_)
LStrip(s) == IF s # <<>> /\ IsSpace(Head(s)) THEN LStrip(Tail(s)) ELSE s

RECURSIVE RStrip(_)
RStrip(s) ==
    IF s # <<>> /\ IsSpace(s[Len(s)]) THEN RStrip(SubSeq(s, 1, Len(s) - 1)) ELSE s

\* str.strip()
Strip(s) == RStrip(LStrip(s))

\* str.replace("\n", " ")
ReplaceNewline(s) == [i \in 1..Len(s) |-> IF s[i] = "\n" THEN " " ELSE s[i]]

LowerChar(c) ==
    CASE c = "EXIT" -> "exit"
      [] c = "Exit" -> "exit"
      [] c = "Next_Day_Shift" -> "next_day_shift"
      [] c = "February" -> "february"
      [] c = "June" -> "june"
      [] OTHER -> c

\* str.lower()
Lower(s) == [i \in 1..Len(s) |-> LowerChar(s[i])]

\* Series.str.contains(pat, na=False) on one cell; pat has no regex metacharacter
Contains(s, pat) ==
    /\ s # NaN
    /\ \E i \in 1..(Len(s) - Len(pat) + 1) : SubSeq(s, i, i + Len(pat) - 1) = pat

----------------------------------------------------------------------------
(* Calendar: datetime / Timestamp *)

Digits == <<"0", "1", "2", "3", "4", "5", "6", "7", "8", "9">>
IsDigit(c) == c \in Range(Digits)
DigitVal(c) == CHOOSE n \in 0..9 : Digits[n + 1] = c
DigitChr(n) == Digits[n + 1]

RECURSIVE ToInt(_)
\* int() of a string of digits
ToInt(s) == IF s = <<>> THEN 0 ELSE 10 * ToInt(SubSeq(s, 1, Len(s) - 1)) + DigitVal(s[Len(s)])

IsLeap(y) == (y % 4 = 0 /\ y % 100 # 0) \/ y % 400 = 0

DaysInMonth(y, m) ==
    IF m = 2 THEN (IF IsLeap(y) THEN 29 ELSE 28)
    ELSE IF m \in {4, 6, 9, 11} THEN 30 ELSE 31

\* the arguments datetime(year, month, day) accepts without ValueError
IsValidDate(y, m, d) ==
    /\ y \in 1..9999
    /\ m \in 1..12
    /\ d \in 1..DaysInMonth(y, m)

RECURSIVE DaysBeforeMonth(_, _)
DaysBeforeMonth(y, m) ==
    IF m = 1 THEN 0 ELSE DaysBeforeMonth(y, m - 1) + DaysInMonth(y, m - 1)

\* date.toordinal(); orders the dates
ToOrdinal(d) ==
    LET y == d.year - 1
    IN  y * 365 + (y \div 4) - (y \div 100) + (y \div 400)
          + DaysBeforeMonth(d.year, d.month) + d.day

DayNames == <<"Monday", "Tuesday", "Wednesday", "Thursday", "Friday",
              "Saturday", "Sunday">>
MonthNames == <<"January", "February", "March", "April", "May", "June", "July",
                "August", "September", "October", "November", "December">>

TwoDigits(n) == <<DigitChr((n \div 10) % 10), DigitChr(n % 10)>>
FourDigits(n) == TwoDigits(n \div 100) \o TwoDigits(n % 100)

\* strftime("%d/%m/%Y")
StrfDMY(d) == TwoDigits(d.day) \o <<"/">> \o TwoDigits(d.month) \o <<"/">> \o FourDigits(d.year)

\* strftime("%A, %d %B %Y")
StrfLong(d) ==
    <<DayNames[((ToOrdinal(d) + 6) % 7) + 1], ",", " ">> \o TwoDigits(d.day)
      \o <<" ", MonthNames[d.month], " ">> \o FourDigits(d.year)

RECURSIVE Split(_, _)
\* str.split(sep)
Split(s, sep) ==
    IF \A i \in 1..Len(s) : s[i] # sep THEN <<s>>
    ELSE LET k == CHOOSE i \in 1..Len(s) :
                      s[i] = sep /\ \A j \in 1..(i - 1) : s[j] # sep
         IN  <<SubSeq(s, 1, k - 1)>> \o Split(SubSeq(s, k + 1, Len(s)), sep)

IsNumber(s, lo, hi) == Len(s) \in lo..hi /\ \A i \in 1..Len(s) : IsDigit(s[i])

\* pd.to_datetime(arg, format="%d/%m/%Y", errors="coerce") on one value
to_datetime(arg) ==
    IF arg = None THEN NoneTs
    ELSE IF arg = NaN THEN NaT
    ELSE LET f == Split(arg, "/")
         IN  IF /\ Len(f) = 3
                /\ IsNumber(f[1], 1, 2)
                /\ IsNumber(f[2], 1, 2)
                /\ IsNumber(f[3], 4, 4)
                /\ IsValidDate(ToInt(f[3]), ToInt(f[2]), ToInt(f[1]))
             THEN [day |-> ToInt(f[1]), month |-> ToInt(f[2]), year |-> ToInt(f[3])]
             ELSE NaT

\* Timestamp == Timestamp and Timestamp >= Timestamp; NaT and None compare False
DateEq(a, b) == a \notin {NaT, NoneTs} /\ b \notin {NaT, NoneTs} /\ a = b
DateGe(a, b) == a \notin {NaT, NoneTs} /\ b \notin {NaT, NoneTs} /\ ToOrdinal(a) >= ToOrdinal(b)

----------------------------------------------------------------------------
(* The roster: lines 17-27 *)

Columns == {"Date"} \cup Range(shift_columns)

\* Series.astype(str) on one cell: a missing value becomes the text "nan"
AsTypeStr(v) == IF v = NaN THEN <<"nan">> ELSE v

\* roster_df[col].astype(str).str.replace("\n", " ").str.strip() on one cell
NormalizeCell(v) == Strip(ReplaceNewline(AsTypeStr(v)))

LoadRow(r) ==
    [c \in Columns |-> IF c = "Date" THEN to_datetime(r[c]) ELSE NormalizeCell(r[c])]

\* the frame after lines 18-27, from the frame pd.read_csv returns
LoadRoster(file) == [i \in 1..Len(file) |-> LoadRow(file[i])]

RECURSIVE InsertByDate(_, _)
InsertByDate(sorted, r) ==
    IF sorted = <<>> THEN <<r>>
    ELSE IF ToOrdinal(r["Date"]) < ToOrdinal(Head(sorted)["Date"])
         THEN <<r>> \o sorted
         ELSE <<Head(sorted)>> \o InsertByDate(Tail(sorted), r)

RECURSIVE SortValues(_)
\* DataFrame.sort_values("Date") of a frame without NaT: a sorted copy; rows of
\* one date keep their order (frames this small are sorted by insertion)
SortValues(df) ==
    IF df = <<>> THEN <<>>
    ELSE InsertByDate(SortValues(SubSeq(df, 1, Len(df) - 1)), df[Len(df)])

----------------------------------------------------------------------------
(* Messages and results *)

NoShiftType == "None"
NoError == "None"

\* a reply: the f-string used, and what is interpolated in it
Msg(template, date, shifts, details, error) ==
    [template |-> template, date |-> date, shifts |-> shifts,
     details |-> details, error |-> error]

NoMsg == Msg("None", <<>>, <<>>, <<>>, NoError)

NoUpcomingTemplate == "Hey Karunya! No upcoming {} found. Enjoy your time off!"
NextShiftTemplate == "Hey Karunya! Your next **{}** shift is on **{}**."
DayOffTemplate == "Hey Karunya! You have **no shifts** on **{}**. Enjoy your day off!"
TimeOffTemplate == "Hey Karunya! You have **no shifts** on **{}**. Enjoy your time off!"
WorkingTemplate == "Hey Karunya! On **{}**, you are working **{}**."
NoShiftsFoundTemplate == "No shifts found on {}."
ScheduleTemplate == "Here's the shift schedule for **{}**: {}"

\* what a call leaves behind: its return value, the exception it raised, and
\* the global roster_df after it
Return(msg, df) == [ret |-> msg, exc |-> NoError, df |-> df]
Raise(exc, df) == [ret |-> NoMsg, exc |-> exc, df |-> df]

\* x.strftime(...) on what pd.to_datetime returned
StrftimeError(query_date) ==
    IF query_date = NoneTs THEN "'NoneType' object has no attribute 'strftime'"
    ELSE IF query_date = NaT THEN "NaTType does not support strftime"
    ELSE NoError

----------------------------------------------------------------------------
(* Query handlers: lines 71-117 *)

\* as IsWife, but matching as line 78 does
IsWifeContains(v) == Contains(v, WIFE_NAME)

\* cell == WIFE_NAME
IsWife(v) == v = WIFE_NAME

FutureShifts(df, now, shift_type) ==
    IF shift_type # NoShiftType
    THEN SelectSeq(df, LAMBDA r : DateGe(r["Date"], now) /\ Contains(r[shift_type], WIFE_NAME))
    ELSE SelectSeq(df, LAMBDA r : DateGe(r["Date"], now)
                                   /\ \E c \in Range(shift_columns) : r[c] = WIFE_NAME)

\* lines 86-93: the string get_next_shift returns
NextShiftMessage(df, now, shift_type) ==
    LET future_shifts == FutureShifts(df, now, shift_type)
    IN  IF future_shifts = <<>>
        THEN Msg(NoUpcomingTemplate, <<>>,
                 <<IF shift_type # NoShiftType THEN shift_type ELSE "shifts">>,
                 <<>>, NoError)
        ELSE LET next_shift == SortValues(future_shifts)[1]
                 shift_info ==
                     IF shift_type # NoShiftType THEN <<shift_type>>
                     ELSE SelectSeq(shift_columns, LAMBDA c : IsWife(next_shift[c]))
             IN  Msg(NextShiftTemplate, StrfLong(next_shift["Date"]),
                     shift_info, <<>>, NoError)

\* as get_next_shift, but sorting the global frame in place
\* (roster_df.sort_values("Date", inplace=True), NaT last)
get_next_shift_inplace(df, now, shift_type) ==
    Return(NextShiftMessage(df, now, shift_type),
           SortValues(SelectSeq(df, LAMBDA r : r["Date"] # NaT))
             \o SelectSeq(df, LAMBDA r : r["Date"] = NaT))

\* the filtered and sorted frames are copies: roster_df is left as it was
get_next_shift(df, now, shift_type) ==
    Return(NextShiftMessage(df, now, shift_type), df)

get_my_shift_on_date(df, dq) ==
    LET query_date == to_datetime(dq)
        shift_row == SelectSeq(df, LAMBDA r : DateEq(r["Date"], query_date))
    IN  IF shift_row = <<>>
        THEN IF StrftimeError(query_date) # NoError
             THEN Raise(StrftimeError(query_date), df)
             ELSE Return(Msg(DayOffTemplate,
                             StrfLong(query_date), <<>>, <<>>, NoError), df)
        ELSE LET shifts == SelectSeq(shift_columns, LAMBDA c : IsWife(shift_row[1][c]))
             IN  IF shifts = <<>>
                 THEN Return(Msg(TimeOffTemplate,
                                 StrfLong(query_date), <<>>, <<>>, NoError), df)
                 ELSE Return(Msg(WorkingTemplate, StrfLong(query_date),
                                 shifts, <<>>, NoError), df)

\* pd.notna on one cell of the loaded frame
NotNa(v) == v # NaN

get_colleagues_on_date(df, dq) ==
    LET query_date == to_datetime(dq)
        shift_row == SelectSeq(df, LAMBDA r : DateEq(r["Date"], query_date))
    IN  IF shift_row = <<>>
        THEN IF StrftimeError(query_date) # NoError
             THEN Raise(StrftimeError(query_date), df)
             ELSE Return(Msg(NoShiftsFoundTemplate, StrfLong(query_date),
                             <<>>, <<>>, NoError), df)
        ELSE LET cols == SelectSeq(shift_columns, LAMBDA c : NotNa(shift_row[1][c]))
                 shifts == [i \in 1..Len(cols) |-> <<cols[i], shift_row[1][cols[i]]>>]
             IN  Return(Msg(ScheduleTemplate, StrfLong(query_date),
                            <<>>, shifts, NoError), df)

----------------------------------------------------------------------------
(* Date extraction: lines 52-69 *)

\* the month whose name the month regex (re.IGNORECASE, no word boundary) finds
\* in a word, or 0
MonthIn(c) ==
    CASE LowerChar(c) = "february" -> 2
      [] LowerChar(c) = "june" -> 6
      [] LowerChar(c) = "maybe" -> 5
      [] OTHER -> 0

\* re.search(r'(\d{1,2})(?:st|nd|rd|th)?', question).group(1), or None
DayMatch(question) ==
    IF \A i \in 1..Len(question) : ~IsDigit(question[i]) THEN None
    ELSE LET k == CHOOSE i \in 1..Len(question) :
                      IsDigit(question[i]) /\ \A j \in 1..(i - 1) : ~IsDigit(question[j])
         IN  IF k < Len(question) /\ IsDigit(question[k + 1])
             THEN SubSeq(question, k, k + 1)
             ELSE SubSeq(question, k, k)

\* the month of the first month name in the question, or 0
MonthMatch(question) ==
    IF \A i \in 1..Len(question) : MonthIn(question[i]) = 0 THEN 0
    ELSE LET k == CHOOSE i \in 1..Len(question) :
                      MonthIn(question[i]) # 0 /\ \A j \in 1..(i - 1) : MonthIn(question[j]) = 0
         IN  MonthIn(question[k])

\* parsed is what dateparser.parse returned for the question: a date or None
extract_date(question, parsed, now) ==
    IF parsed # NoneTs THEN [ret |-> StrfDMY(parsed), exc |-> NoError]
    ELSE IF DayMatch(question) = None THEN [ret |-> None, exc |-> NoError]
    ELSE LET day == ToInt(DayMatch(question))
             month == IF MonthMatch(question) # 0 THEN MonthMatch(question) ELSE now.month
             year == now.year
         IN  IF IsValidDate(year, month, day)
             THEN [ret |-> StrfDMY([day |-> day, month |-> month, year |-> year]),
                   exc |-> NoError]
             ELSE [ret |-> None, exc |-> "ValueError: day is out of range for month"]

----------------------------------------------------------------------------
(* Classification: lines 29-50 *)

\* the outcome of client.chat.completions.create when the service cannot be reached
ServiceFailure == <<"openai.APIConnectionError">>

\* reply is the content of the service's answer, or ServiceFailure
classify_question(reply) ==
    IF reply = ServiceFailure
    THEN [ret |-> None, exc |-> "openai.APIConnectionError"]
    ELSE [ret |-> Lower(Strip(reply)), exc |-> NoError]

----------------------------------------------------------------------------
(* Dispatch: lines 119-145 *)

Call(fn, arg) == [fn |-> fn, arg |-> arg]

\* the keys of category_map
Handled == {<<"next_shift">>, <<"next_day_shift">>, <<"next_night_shift">>,
            <<"next_day_on_call">>, <<"next_night_on_call">>,
            <<"my_shift_on_date">>, <<"colleagues_on_date">>}

\* the call category_map[cat] makes
HandlerCall(cat, dq) ==
    CASE cat = <<"next_shift">> -> Call("get_next_shift", <<NoShiftType>>)
      [] cat = <<"next_day_shift">> -> Call("get_next_shift", <<"Day">>)
      [] cat = <<"next_night_shift">> -> Call("get_next_shift", <<"Night">>)
      [] cat = <<"next_day_on_call">> -> Call("get_next_shift", <<"Day on call">>)
      [] cat = <<"next_night_on_call">> -> Call("get_next_shift", <<"Night on call">>)
      [] cat = <<"my_shift_on_date">> -> Call("get_my_shift_on_date", dq)
      [] cat = <<"colleagues_on_date">> -> Call("get_colleagues_on_date", dq)

\* the effect of one call of a query handler
Invoke(call, df, now) ==
    CASE call.fn = "get_next_shift" -> get_next_shift(df, now, call.arg[1])
      [] call.fn = "get_my_shift_on_date" -> get_my_shift_on_date(df, call.arg)
      [] call.fn = "get_colleagues_on_date" -> get_colleagues_on_date(df, call.arg)

Outcome(ret, exc, df, cat, dq, trace) ==
    [ret |-> ret, exc |-> exc, df |-> df, category |-> cat, date_query |-> dq,
     calls |-> trace]

OopsTemplate == "Oops! Something went wrong while processing your request. Error: {}"
ClarifyTemplate == "Hmm, I didn't quite catch that. Could you rephrase your question?"
GoodbyeTemplate == "Goodbye! Have a great day!"

\* as Guarded, without the try/except
Unguarded(h, cat, dq, trace) ==
    IF h.exc = NoError
    THEN Outcome(h.ret, NoError, h.df, cat, dq, trace)
    ELSE Outcome(NoMsg, h.exc, h.df, cat, dq, trace)

\* lines 138-141: the handler's result, or the apology built from its exception
Guarded(h, cat, dq, trace) ==
    IF h.exc = NoError
    THEN Outcome(h.ret, NoError, h.df, cat, dq, trace)
    ELSE Outcome(Msg(OopsTemplate, <<>>, <<>>, <<>>, h.exc), NoError, h.df, cat, dq, trace)

\* as Fallback, but answering an unknown category like "next_shift"
FallbackToNextShift(cat, dq, df, now, trace) ==
    Guarded(get_next_shift(df, now, NoShiftType), cat, dq,
            Append(trace, Call("get_next_shift", <<NoShiftType>>)))

\* lines 142-145
Fallback(cat, dq, df, now, trace) ==
    Outcome(Msg(ClarifyTemplate, <<>>, <<>>, <<>>, NoError), NoError, df, cat, dq, trace)

\* lines 136-145
Dispatch(cat, dq, df, now, trace) ==
    IF cat \in Handled
    THEN Guarded(Invoke(HandlerCall(cat, dq), df, now), cat, dq,
                 Append(trace, HandlerCall(cat, dq)))
    ELSE Fallback(cat, dq, df, now, trace)

ask_question(df, now, question, reply, parsed) ==
    LET c == classify_question(reply)
        d == extract_date(question, parsed, now)
        t1 == <<Call("classify_question", question)>>
        t2 == Append(t1, Call("extract_date", question))
    IN  IF c.exc # NoError THEN Outcome(NoMsg, c.exc, df, None, None, t1)
        ELSE IF d.exc # NoError THEN Outcome(NoMsg, d.exc, df, c.ret, None, t2)
        ELSE Dispatch(c.ret, d.ret, df, now, t2)

----------------------------------------------------------------------------
(* Inputs *)

D(day, month, year) == [day |-> day, month |-> month, year |-> year]

Asha == <<"Asha">>
Blank == <<" ">>
WifeTwoLines == <<"Karunya", "\n", "Subramaniyan", "\n">>
WifeAndAsha == <<"Karunya", " ", "Subramaniyan", "\n", "Asha">>

\* the four shift cells of a line of the file, as pd.read_csv returns them
CellPatterns ==
    { <<WIFE_NAME, Asha, NaN, NaN>>,
      <<NaN, WifeTwoLines, Asha, WIFE_NAME>>,
      <<WifeAndAsha, Blank, NaN, Asha>>,
      <<Asha, NaN, WIFE_NAME, Blank>> }

\* the Date cell of a line of the file; the last has another format
RawDates ==
    { StrfDMY(D(5, 6, 2024)), StrfDMY(D(10, 6, 2024)),
      <<"2", "0", "2", "4", "-", "0", "6", "-", "0", "5">> }

RawRow(date, cells) ==
    [c \in Columns |->
        IF c = "Date" THEN date
        ELSE cells[CHOOSE i \in 1..Len(shift_columns) : shift_columns[i] = c]]

RawRows == {RawRow(date, cells) : date \in RawDates, cells \in CellPatterns}

\* the roster files of at most n lines
Files(n) == UNION {[1..k -> RawRows] : k \in 0..n}

\* the roster files the application is run on
AppFiles ==
    LET Line(date, cells) == RawRow(StrfDMY(date), cells)
    IN  { <<>>,
          <<Line(D(10, 6, 2024), <<WIFE_NAME, Asha, NaN, NaN>>),
            Line(D(5, 6, 2024), <<WifeAndAsha, Blank, NaN, Asha>>),
            RawRow(<<"2", "0", "2", "4", "-", "0", "6", "-", "0", "5">>,
                   <<NaN, WifeTwoLines, Asha, WIFE_NAME>>)>>,
          <<Line(D(5, 6, 2024), <<NaN, WifeTwoLines, Asha, WIFE_NAME>>),
            Line(D(10, 6, 2024), <<Asha, NaN, WIFE_NAME, Blank>>)>>,
          <<Line(D(5, 6, 2024), <<Asha, NaN, WIFE_NAME, Blank>>)>> }

Todays == {D(3, 6, 2024), D(7, 6, 2024)}

\* what dateparser.parse may return
Parsed == {NoneTs, D(5, 6, 2024)}

\* what the user may type
Questions ==
    { <<>>,
      <<"exit">>, <<"EXIT">>, <<"Exit">>,
      <<"next", " ", "shift">>,
      <<"shift", " ", "on", " ", "the", " ", "9", "th">>,
      <<"who", " ", "on", " ", "1", "0", " ", "June">>,
      <<"shift", " ", "on", " ", "4", "5">>,
      <<"3", "0", " ", "February">> }

\* what the classification service may answer
Replies ==
    Handled \cup
    { <<"colleagues_on_shift">>, <<"shift_run_end">>, <<"hello">>,
      <<" ", "Next_Day_Shift", "\n">>, ServiceFailure }

\* the date arguments the handlers are called with
DateQueries ==
    {None} \cup {StrfDMY(D(d, 6, 2024)) : d \in {5, 9, 10}}

ShiftTypes == Range(shift_columns) \cup {NoShiftType}

----------------------------------------------------------------------------
(* The application: lines 147-159, one run of the script per input *)

InitWith(files) ==
    /\ csv \in files
    /\ today \in Todays
    /\ roster_df = LoadRoster(csv)
    /\ user_question = None
    /\ category = None
    /\ date_query = None
    /\ output = NoMsg
    /\ raised = NoError
    /\ calls = <<>>

Init == InitWith(AppFiles)

\* as IsExit, without .lower()
IsExitCaseSensitive(q) == q = <<"exit">>

\* user_question.lower() == "exit"
IsExit(q) == Lower(q) = <<"exit">>

\* line 154-155
Goodbye(q) ==
    /\ IsExit(q)
    /\ user_question' = q
    /\ roster_df' = LoadRoster(csv)
    /\ output' = Msg(GoodbyeTemplate, <<>>, <<>>, <<>>, NoError)
    /\ category' = None
    /\ date_query' = None
    /\ raised' = NoError
    /\ calls' = <<>>
    /\ UNCHANGED <<csv, today>>

\* line 157 with an empty input: nothing is written
NoInput ==
    /\ user_question' = <<>>
    /\ roster_df' = LoadRoster(csv)
    /\ output' = NoMsg
    /\ category' = None
    /\ date_query' = None
    /\ raised' = NoError
    /\ calls' = <<>>
    /\ UNCHANGED <<csv, today>>

\* lines 157-159: the pipeline; an exception that leaves ask_question ends the run
Ask(q, reply, parsed) ==
    /\ ~IsExit(q)
    /\ q # <<>>
    /\ \E r \in {ask_question(LoadRoster(csv), today, q, reply, parsed)} :
           /\ user_question' = q
           /\ roster_df' = r.df
           /\ output' = r.ret
           /\ category' = r.category
           /\ date_query' = r.date_query
           /\ raised' = r.exc
           /\ calls' = r.calls
    /\ UNCHANGED <<csv, today>>

Next ==
    \/ \E q \in Questions : Goodbye(q)
    \/ NoInput
    \/ \E q \in Questions, reply \in Replies, parsed \in Parsed : Ask(q, reply, parsed)

Spec == Init /\ [][Next]_vars

----------------------------------------------------------------------------
(* The query handlers called on their own *)

InitHandlers == InitWith(Files(MaxRows))

CallHandler(call) ==
    /\ \E r \in {Invoke(call, roster_df, today)} :
           /\ roster_df' = r.df
           /\ output' = r.ret
           /\ raised' = r.exc
    /\ calls' = <<call>>
    /\ UNCHANGED <<csv, today, user_question, category, date_query>>

CallNextShift(shift_type) == CallHandler(Call("get_next_shift", <<shift_type>>))

CallMyShiftOnDate(dq) == CallHandler(Call("get_my_shift_on_date", dq))

CallColleaguesOnDate(dq) == CallHandler(Call("get_colleagues_on_date", dq))

NextHandlers ==
    \/ \E shift_type \in ShiftTypes : CallNextShift(shift_type)
    \/ \E dq \in DateQueries : CallMyShiftOnDate(dq)
    \/ \E dq \in DateQueries : CallColleaguesOnDate(dq)

SpecHandlers == InitHandlers /\ [][NextHandlers]_vars

----------------------------------------------------------------------------
(* Properties of the application (Spec) *)

Clarification == Msg(ClarifyTemplate, <<>>, <<>>, <<>>, NoError)
DateCategories == {<<"my_shift_on_date">>, <<"colleagues_on_date">>}

\* C1: whenever the pipeline has run on a question, whatever the
\* classification call and the date extraction did, it ended with a string to
\* show and no exception left ask_question.
C1_AnswerAlwaysReturnsString ==
    calls # <<>> => (raised = NoError /\ output # NoMsg)

\* C2: when the category has a handler and the handler was invoked, no
\* exception leaves ask_question; if the handler raised, the answer is the
\* apology carrying the exception's text; with an absent date the two date
\* handlers raise, so the answer is the apology and not an "off" or "no shifts
\* found" message.
C2_HandlerFailureIsReported ==
    (category \in Handled /\ Len(calls) = 3) =>
        /\ raised = NoError
        /\ Invoke(calls[3], roster_df, today).exc # NoError =>
               output = Msg(OopsTemplate, <<>>, <<>>, <<>>,
                            Invoke(calls[3], roster_df, today).exc)
        /\ (category \in DateCategories /\ date_query = None) =>
               /\ output.template = OopsTemplate
               /\ output.error = "'NoneType' object has no attribute 'strftime'"

C2_Witness ==
    /\ category = <<"my_shift_on_date">>
    /\ date_query = None
    /\ Len(calls) = 3
    /\ calls[3].fn = "get_my_shift_on_date"
    /\ output.template = OopsTemplate

\* C3: when classification and extraction have returned and the category is
\* not a key of category_map, the answer is the clarification message, whatever
\* the extracted date, and no query handler was called.
C3_UnknownLabelGetsClarification ==
    (Len(calls) >= 2 /\ raised = NoError /\ category \notin Handled) =>
        /\ output = Clarification
        /\ Len(calls) = 2
        /\ \A i \in 1..Len(calls) : calls[i].fn \in {"classify_question", "extract_date"}

C3_Witness ==
    /\ category = <<"shift_run_end">>
    /\ date_query # None
    /\ raised = NoError
    /\ output = Clarification

\* C7: date extraction ends in a date or in None, never in an exception.
C7_ExtractReturnsDateOrNone ==
    Len(calls) >= 2 =>
        /\ raised = NoError
        /\ date_query = None \/ to_datetime(date_query) \notin {NaT, NoneTs}

\* C8: an input that is "exit" in any letter case gets the goodbye message and
\* nothing of the pipeline runs; an empty input runs nothing either.
C8_ExitSkipsPipeline ==
    /\ (user_question # None /\ Lower(user_question) = <<"exit">>) =>
           /\ output = Msg(GoodbyeTemplate, <<>>, <<>>, <<>>, NoError)
           /\ calls = <<>>
           /\ category = None
           /\ date_query = None
    /\ user_question = <<>> => (calls = <<>> /\ output = NoMsg)

C8_Witness ==
    /\ user_question = <<"EXIT">>
    /\ output.template = GoodbyeTemplate
    /\ calls = <<>>

\* C9: after any sequence of runs the roster is the table that was loaded.
C9_RosterUnchanged == roster_df = LoadRoster(csv)

C9_Witness ==
    /\ Len(calls) = 3
    /\ calls[3].fn = "get_next_shift"
    /\ output.template = NextShiftTemplate
    /\ Len(roster_df) >= 2
    /\ roster_df[1]["Date"] # NaT
    /\ roster_df[2]["Date"] # NaT
    /\ ToOrdinal(roster_df[1]["Date"]) > ToOrdinal(roster_df[2]["Date"])

----------------------------------------------------------------------------
(* Properties of the query handlers (SpecHandlers) *)

Called(fn) == calls # <<>> /\ calls[1].fn = fn

\* the rows of the roster on date d, in the order of the table
RowsOn(d) == SelectSeq(roster_df, LAMBDA r : r["Date"] = d)

SlotsOfWife(row) == {c \in Range(shift_columns) : row[c] = WIFE_NAME}

\* an empty slot of the loaded table: nothing, or the text of a missing value
IsEmptyCell(v) == v \in {<<>>, <<"nan">>, NaN}

\* C4: for a date with a row, get_my_shift_on_date names exactly the slots of
\* that row that equal WIFE_NAME; for a date without a row, or with a row
\* without such a slot, it answers with a "no shifts" message.
C4_MyShiftNamesExactlyHerSlots ==
    (Called("get_my_shift_on_date") /\ calls[1].arg # None) =>
        LET d == to_datetime(calls[1].arg)
            hers == IF RowsOn(d) = <<>> THEN {} ELSE SlotsOfWife(RowsOn(d)[1])
        IN  /\ raised = NoError
            /\ output.date = StrfLong(d)
            /\ IF hers = {}
               THEN /\ output.template \in {DayOffTemplate, TimeOffTemplate}
                    /\ output.shifts = <<>>
               ELSE /\ output.template = WorkingTemplate
                    /\ Range(output.shifts) = hers
                    /\ Len(output.shifts) = Cardinality(hers)

C4_Witness ==
    /\ Called("get_my_shift_on_date")
    /\ calls[1].arg # None
    /\ output.template = WorkingTemplate
    /\ Len(output.shifts) = 2
    /\ \E c \in Range(shift_columns) : RowsOn(to_datetime(calls[1].arg))[1][c] = Asha

\* C5: for a date with a row, get_colleagues_on_date lists the slots of that
\* row that are not empty, and no empty one; for a date without a row it
\* answers "no shifts found".
C5_ColleaguesListsNonEmptySlots ==
    (Called("get_colleagues_on_date") /\ calls[1].arg # None) =>
        LET d == to_datetime(calls[1].arg)
        IN  IF RowsOn(d) = <<>>
            THEN output.template = NoShiftsFoundTemplate
            ELSE /\ output.template = ScheduleTemplate
                 /\ {output.details[i][1] : i \in 1..Len(output.details)}
                      = {c \in Range(shift_columns) : ~IsEmptyCell(RowsOn(d)[1][c])}

\* C6: get_next_shift reports the earliest row, among those dated today or
\* later, whose slot equals WIFE_NAME (any slot when none is given), with its
\* date and slots, and answers "no upcoming" exactly when there is no such row.
C6_NextShiftIsEarliestMatch ==
    Called("get_next_shift") =>
        LET st == calls[1].arg[1]
            Matches(r) == IF st = NoShiftType THEN SlotsOfWife(r) # {}
                          ELSE r[st] = WIFE_NAME
            Ord(i) == ToOrdinal(roster_df[i]["Date"])
            cand == {i \in 1..Len(roster_df) :
                        /\ roster_df[i]["Date"] # NaT
                        /\ Ord(i) >= ToOrdinal(today)
                        /\ Matches(roster_df[i])}
        IN  IF cand = {}
            THEN output.template = NoUpcomingTemplate
            ELSE /\ output.template = NextShiftTemplate
                 /\ \E i \in cand :
                        /\ \A j \in cand : Ord(i) <= Ord(j)
                        /\ output.date = StrfLong(roster_df[i]["Date"])
                        /\ Range(output.shifts) =
                               (IF st = NoShiftType THEN SlotsOfWife(roster_df[i]) ELSE {st})

\* C10: when get_next_shift for a slot reports a date, get_next_shift for any
\* slot reports a date that is not later, and names that slot if it reports
\* the same date.
C10_AnySlotAgreesWithSlot ==
    (Called("get_next_shift") /\ calls[1].arg[1] # NoShiftType
       /\ output.template = NextShiftTemplate) =>
        LET any == get_next_shift(roster_df, today, NoShiftType).ret
            DateOf(m) == CHOOSE d \in {roster_df[i]["Date"] : i \in 1..Len(roster_df)} \ {NaT} :
                             StrfLong(d) = m.date
        IN  /\ any.template = NextShiftTemplate
            /\ ToOrdinal(DateOf(any)) <= ToOrdinal(DateOf(output))
            /\ any.date = output.date => calls[1].arg[1] \in Range(any.shifts)

====
